---- MODULE Spec2Model ----
(***************************************************************************)
(* django-database-constraints: transactional_save and the conversion of   *)
(* database IntegrityErrors into form ValidationErrors (forms.py), run by  *)
(* two threads against one table with a unique column (tests.py).          *)
(***************************************************************************)
EXTENDS Integers, Sequences, FiniteSets, TLC

(* ---------------------------- bounds ----------------------------------- *)

\* longest convertors list a caller passes in
MaxConv == 2
\* calls of transactional_save one thread makes on its form
MaxCalls == 2

(* ---------------------------- universe --------------------------------- *)

\* the two threads of the tests (first_thread, second_thread)
Threads == {"first", "second"}

\* values of TestModel.unique posted by the forms
Values == {1, 2}

\* django.forms.forms.NON_FIELD_ERRORS
NON_FIELD_ERRORS == "__all__"

\* the field=None default of add_error_to_form
NoField == "None"

FieldNames == {NON_FIELD_ERRORS, "unique"}

\* a message object: plain text, or a lazy translation object carrying text
Msg(lazy, text) == [lazy |-> lazy, text |-> text]

\* django.utils.encoding.force_text: the text of a message object
force_text(m) == m.text

\* an entry of an error list: a ValidationError instance holding messages, or
\* a bare message object (isVE = FALSE, exactly one message)
Item(isVE, msgs) == [isVE |-> isVE, msgs |-> msgs]

\* the empty mapping (a fresh ErrorDict, a fresh dict)
EmptyDict == [f \in {} |-> <<>>]

\* an IntegrityError instance: its text and the transaction that raised it
IntegrityError(text, thread, call) == [text |-> text, thread |-> thread, call |-> call]

NoCause == IntegrityError("", "", 0)

\* str(ierror)
Str(ierror) == ierror.text

\* exceptions: one record shape for the three kinds the code distinguishes
NoExc ==
    [type |-> "none", ierror |-> NoCause, hasDict |-> FALSE,
     error_dict |-> EmptyDict, error_list |-> <<>>, cause |-> NoCause]

RaisedIntegrityError(ierror) == [NoExc EXCEPT !.type = "IntegrityError", !.ierror = ierror]

OtherError == [NoExc EXCEPT !.type = "Other"]

\* forms.ValidationError(message), forms.ValidationError([messages...])
ValidationErrorList(msgs) ==
    [NoExc EXCEPT !.type = "ValidationError",
                  !.error_list = [i \in DOMAIN msgs |-> Item(TRUE, <<msgs[i]>>)]]

\* forms.ValidationError({field: [messages...]})
ValidationErrorDict(d) ==
    [NoExc EXCEPT !.type = "ValidationError", !.hasDict = TRUE,
                  !.error_dict = [f \in DOMAIN d |->
                                    [i \in DOMAIN d[f] |-> Item(TRUE, <<d[f][i]>>)]]]

\* ValidationError.messages of one entry of an error list
Messages(item) == [i \in DOMAIN item.msgs |-> force_text(item.msgs[i])]

(* ------------------------- error conversion ---------------------------- *)

\* mutant: the fallback files its message under the unique field
fallback_under_field(ierror) ==
    ValidationErrorDict([f \in {"unique"} |-> <<Msg(FALSE, Str(ierror))>>])

\* def fallback_conversion(ierror)
fallback_conversion(ierror) == ValidationErrorList(<<Msg(FALSE, Str(ierror))>>)

\* mutant: no default convertor is registered
NoDefaultConvertors == <<>>

\* DEFAULT_CONVERTORS = [ fallback_conversion ]
DEFAULT_CONVERTORS == <<"fallback">>

\* the convertors a caller can supply: one that declines, one that blames the
\* unique field, one that gives a non-field message, one that raises an
\* exception that is no ValidationError, one that raises a ValidationError
SuppliedConvertors == {"decline", "field", "nonfield", "raises", "raises_ve"}

\* convertor(ierror): what a convertor gives: "none", "raise" or a ValidationError
ConvertorCall(convertor, ierror) ==
    CASE convertor = "fallback" -> [outcome |-> "value", v |-> fallback_conversion(ierror)]
      [] convertor = "field"    ->
            [outcome |-> "value",
             v |-> ValidationErrorDict([f \in {"unique"} |-> <<Msg(FALSE, "taken")>>])]
      [] convertor = "nonfield" ->
            [outcome |-> "value", v |-> ValidationErrorList(<<Msg(TRUE, "custom")>>)]
      [] convertor = "raises"   -> [outcome |-> "raise", v |-> OtherError]
      [] convertor = "raises_ve" ->
            [outcome |-> "raise",
             v |-> ValidationErrorList(<<Msg(FALSE, "raised by convertor")>>)]
      [] OTHER                  -> [outcome |-> "none", v |-> NoExc]

\* mutant: the cause is not stamped
NoStampCause(v, ierror) == v

\* v.cause = ierror
StampCause(v, ierror) == [v EXCEPT !.cause = ierror]

\* for convertor in convertors: ... (the loop body, from position i on)
RECURSIVE ConvertLoop(_, _, _, _)
ConvertLoop(convertors, i, ierror, invoked) ==
    IF i > Len(convertors)
    THEN [outcome |-> "none", v |-> NoExc, invoked |-> invoked]
    ELSE LET r == ConvertorCall(convertors[i], ierror)
         IN  CASE r.outcome = "value" ->
                    [outcome |-> "value", v |-> StampCause(r.v, ierror),
                     invoked |-> Append(invoked, i)]
               [] r.outcome = "raise" ->
                    [outcome |-> "raise", v |-> r.v, invoked |-> Append(invoked, i)]
               [] OTHER -> ConvertLoop(convertors, i + 1, ierror, Append(invoked, i))

\* mutant: the supplied convertors are dropped, only the defaults are tried
ConvertorsDropped(arg) == <<>>

\* if convertors is None: convertors = []
ConvertorsOrEmpty(arg) == IF arg.isNone THEN <<>> ELSE arg.items

\* mutant: the defaults are put in front of the supplied convertors
ExtendFront(convertors) == DEFAULT_CONVERTORS \o convertors

\* convertors.extend(DEFAULT_CONVERTORS)
Extend(convertors) == convertors \o DEFAULT_CONVERTORS

\* mutant: the loop pops the convertors it tries off the caller's list
ConsumingConversion(ierror, arg) ==
    LET convertors == Extend(ConvertorsOrEmpty(arg))
        r == ConvertLoop(convertors, 1, ierror, <<>>)
    IN  [outcome |-> r.outcome, v |-> r.v, invoked |-> r.invoked,
         convertors |-> SubSeq(convertors, Len(r.invoked) + 1, Len(convertors))]

\* def validationerror_from_integrityerror(ierror, convertors=None): the value or
\* exception it ends with, the positions it invoked, and the list it leaves
validationerror_from_integrityerror(ierror, arg) ==
    LET convertors == Extend(ConvertorsOrEmpty(arg))
        r == ConvertLoop(convertors, 1, ierror, <<>>)
    IN  [outcome |-> r.outcome, v |-> r.v, invoked |-> r.invoked,
         convertors |-> convertors]

(* --------------------------- form errors ------------------------------- *)

\* mutant: the field is not passed on, every message lands in the non-field bucket
add_error_ignoring_field(errors, error, field) ==
    LET withField == [f \in DOMAIN errors \cup {NON_FIELD_ERRORS} |->
                        IF f \in DOMAIN errors THEN errors[f] ELSE <<>>]
    IN  [withField EXCEPT ![NON_FIELD_ERRORS] = Append(@, error)]

\* mutant: the bucket is created afresh on every call
add_error_resetting_bucket(errors, error, field) ==
    LET fld == IF field = NoField THEN NON_FIELD_ERRORS ELSE field
    IN  [f \in DOMAIN errors \cup {fld} |-> IF f = fld THEN <<error>> ELSE errors[f]]

\* def add_error_to_form(form, error, field=None), on form._errors
add_error_to_form(errors, error, field) ==
    LET fld == IF field = NoField THEN NON_FIELD_ERRORS ELSE field
        withField == [f \in DOMAIN errors \cup {fld} |->
                        IF f \in DOMAIN errors THEN errors[f] ELSE <<>>]
    IN  [withField EXCEPT ![fld] = Append(@, error)]

\* error_dict = e.update_error_dict({})
update_error_dict(e) ==
    IF e.hasDict THEN e.error_dict
    ELSE [f \in {NON_FIELD_ERRORS} |-> e.error_list]

\* mutant: only the first entry of the error list is taken
first_message_only(messages) ==
    IF messages = <<>> THEN <<>> ELSE <<force_text(Head(messages).msgs[1])>>

\* the inner loop over messages: message_list for one field
RECURSIVE message_list(_)
message_list(messages) ==
    IF messages = <<>> THEN <<>>
    ELSE LET message == Head(messages)
         IN  (IF message.isVE THEN Messages(message)
              ELSE <<force_text(message.msgs[1])>>) \o message_list(Tail(messages))

\* for m in message_list: add_error_to_form(form, m, field)
RECURSIVE AddAll(_, _, _)
AddAll(errors, ms, field) ==
    IF ms = <<>> THEN errors
    ELSE AddAll(add_error_to_form(errors, Head(ms), field), Tail(ms), field)

\* for field, messages in error_dict.items(): ...
RECURSIVE AddFields(_, _, _)
AddFields(errors, error_dict, fields) ==
    IF fields = {} THEN errors
    ELSE LET field == CHOOSE f \in fields : TRUE
         IN  AddFields(AddAll(errors, message_list(error_dict[field]), field),
                       error_dict, fields \ {field})

\* the body of "except forms.ValidationError as e" before the raise
AddErrorToForm(errors, e) ==
    LET error_dict == update_error_dict(e)
    IN  AddFields(errors, error_dict, DOMAIN error_dict)

(* ----------------------------- database -------------------------------- *)

\* a row of TestModel: the unique column and the thread whose save wrote it
Row(v, p) == [unique |-> v, by |-> p]

\* mutant: the column is not unique, no value is ever taken
NoUniqueValues(rows) == {}

\* unique=True: the values held by a set of rows
UniqueValues(rows) == {r.unique : r \in rows}

\* the committed records other than the one thread p's form is bound to
OthersRows(db, p) == {r \in db : r.by # p}

\* mutant: leaving the block normally does not commit
CommitLosesWrites(db, rows) == db

\* mutant: a committed update leaves the record's old row in place
CommitKeepsOldRow(db, rows) == db \cup rows

\* leaving "with tx_context_manager:" normally: the writes become visible (a
\* written record takes the place of the committed one it updates)
Commit(db, rows) == {r \in db : r.by \notin {w.by : w \in rows}} \cup rows

\* mutant: leaving the block on an exception commits all the same
RollbackKeepsWrites(db, rows) == db \cup rows

\* leaving "with tx_context_manager:" on an exception: the writes are dropped
Rollback(db, rows) == db

(* ------------------------------ state ---------------------------------- *)

VARIABLES
    committed,    \* the committed rows of the table, visible to every thread
    uncommitted,  \* per thread: rows written in its open transaction
    pc,           \* per thread: where it stands in transactional_save
    form,         \* per thread: the form class and the posted value
    convertors,   \* per thread: the convertors argument (None or a list object)
    errors,       \* per thread: form._errors
    errors0,      \* per thread: form._errors when the current call began
    exc,          \* per thread: the exception in flight / raised to the caller
    result,       \* per thread: what transactional_save returned (0: nothing)
    calls,        \* per thread: calls of transactional_save made so far
    conversion,   \* per thread: the latest run of validationerror_from_integrityerror
    inTx,         \* per thread: inside "with tx_context_manager:"
    mode,         \* the callers: "forms" (tsave), "short" (tsave with at most one
                  \* supplied convertor), "gated" (tsave behind the semaphore),
                  \* "create" or "update" (the views)
    semaphore,    \* the threading.Semaphore of the tests
    response,     \* per thread: the status of the view's response (0: none)
    saves,        \* per thread: calls of form.save() made inside / outside a
                  \* "with tx_context_manager:" block
    tx            \* per thread: how often the transaction context was entered,
                  \* left with a commit, left with a rollback

vars == <<committed, uncommitted, pc, form, convertors, errors, errors0, exc,
          result, calls, conversion, inTx, mode, semaphore, response, saves, tx>>

\* no form.save() called yet
NoSaves == [inside |-> 0, outside |-> 0]

\* no transaction context entered yet
NoTx == [entered |-> 0, committed |-> 0, rolledback |-> 0]

\* the form classes: a plain ModelForm on TestModel; a ModelForm whose row also
\* breaks a constraint checked at commit; forms whose save() raises
FormClasses == {"ModelForm", "DeferredForm", "RaisesValidationError", "RaisesOther"}

NoForm == [class |-> "none", data |-> 0, raises |-> NoExc]

\* convertors=None, or a list of at most MaxConv supplied convertors
None == [isNone |-> TRUE, items |-> <<>>]

List(items) == [isNone |-> FALSE, items |-> items]

ConvertorArgs ==
    {None} \cup
    {List(items) : items \in UNION {[1..n -> SuppliedConvertors] : n \in 0..MaxConv}}

NoConversion ==
    [ierror |-> NoCause, arg |-> None, outcome |-> "none", v |-> NoExc, invoked |-> <<>>,
     convertors |-> <<>>]

\* the ValidationErrors a form's save() raises (tests.py), plus a lazy message,
\* a bare message entry and a two-field mapping
SaveValidationErrors ==
    { ValidationErrorList(<<Msg(FALSE, "some message")>>),
      ValidationErrorList(<<Msg(FALSE, "some message"), Msg(FALSE, "some other message")>>),
      ValidationErrorDict([f \in {"unique"} |->
          <<Msg(FALSE, "some message"), Msg(FALSE, "some other message")>>]),
      ValidationErrorDict([f \in {"unique", NON_FIELD_ERRORS} |->
          IF f = "unique" THEN <<Msg(TRUE, "some message")>>
          ELSE <<Msg(FALSE, "some other message")>>]),
      [NoExc EXCEPT !.type = "ValidationError",
                    !.error_list = <<Item(FALSE, <<Msg(TRUE, "some message")>>)>>] }

\* what save() of a form class raises (NoExc: nothing of its own)
SaveErrors(c) ==
    CASE c = "RaisesValidationError" -> SaveValidationErrors
      [] c = "RaisesOther"           -> {OtherError}
      [] OTHER                       -> {NoExc}

\* what each thread of the tests runs: the first thread is the caller under
\* study, with any form class and any convertors argument; the second is the
\* competing writer, a model form calling tsave() with no convertors
\* In the semaphore-gated race the first thread saves through the acquiring form
\* and the second through the releasing form. A view passes a fresh one-element
\* list, its own validationerror_from_integrityerror: the default declines, an
\* override returns an error.
ThreadForms(p) ==
    CASE mode = "gated" -> IF p = "first" THEN {"AcquiringForm"} ELSE {"ReleasingForm"}
      [] mode \in {"forms", "short"} ->
            IF p = "first" THEN FormClasses ELSE {"ModelForm", "DeferredForm"}
      [] OTHER          -> IF p = "first" THEN FormClasses ELSE {"ModelForm"}

ThreadArgs(p) ==
    CASE mode \in {"forms", "gated"} -> IF p = "first" THEN ConvertorArgs ELSE {None}
      [] mode = "short" ->
            IF p = "first" THEN {a \in ConvertorArgs : Len(a.items) <= 1} ELSE {None}
      [] OTHER -> IF p = "first" THEN {List(<<c>>) : c \in {"decline", "nonfield", "field"}}
                  ELSE {List(<<"decline">>)}

\* the records of the update tests: tm1 (unique=1) and tm2 (unique=2), one for
\* the request of each thread
ExistingRows == {Row(1, "first"), Row(2, "second")}

\* the values the update requests post
UpdateValues == {1, 3}

\* the values the form of thread p can post. On the empty table the values are
\* interchangeable: in the races of plain tsave() calls the first thread posts
\* the least of them, the second any.
Posted(p) ==
    CASE mode = "update" -> UpdateValues
      [] mode \in {"forms", "short"} /\ p = "first" ->
            {v \in Values : \A w \in Values : v <= w}
      [] OTHER -> Values

Init ==
    /\ committed = {}
    /\ uncommitted = [p \in Threads |-> {}]
    /\ pc = [p \in Threads |-> "new"]
    /\ form = [p \in Threads |-> NoForm]
    /\ convertors = [p \in Threads |-> None]
    /\ errors = [p \in Threads |-> EmptyDict]
    /\ errors0 = [p \in Threads |-> EmptyDict]
    /\ exc = [p \in Threads |-> NoExc]
    /\ result = [p \in Threads |-> 0]
    /\ calls = [p \in Threads |-> 0]
    /\ conversion = [p \in Threads |-> NoConversion]
    /\ inTx = [p \in Threads |-> FALSE]
    /\ mode = "forms"
    /\ semaphore = 0
    /\ response = [p \in Threads |-> 0]
    /\ saves = [p \in Threads |-> NoSaves]
    /\ tx = [p \in Threads |-> NoTx]

(* ----------------------------- actions --------------------------------- *)

\* form = FormClass({'unique': v}); form.is_valid(): ModelForm validation finds
\* no committed row with that value
Validate(p) ==
    /\ pc[p] = "new"
    /\ \E c \in ThreadForms(p), v \in Posted(p), a \in ThreadArgs(p) :
      \E e \in SaveErrors(c) :
        /\ v \notin UniqueValues(OthersRows(committed, p))
        /\ form' = [form EXCEPT ![p] = [class |-> c, data |-> v, raises |-> e]]
        /\ convertors' = [convertors EXCEPT ![p] = a]
    /\ pc' = [pc EXCEPT ![p] = "valid"]
    /\ UNCHANGED <<committed, uncommitted, errors, errors0, exc, result, calls, conversion>>
    /\ UNCHANGED <<inTx, mode, semaphore, response>>
    /\ UNCHANGED <<saves, tx>>

\* transactional_save(form, convertors): entering "with tx_context_manager:" and
\* calling form.save() in it (the first call, or another call on the same form
\* after a ValidationError)
Enter(p) ==
    /\ \/ pc[p] = "valid"
       \/ pc[p] = "raised" /\ exc[p].type = "ValidationError" /\ mode \in {"forms", "short"}
    /\ calls[p] < MaxCalls
    /\ calls' = [calls EXCEPT ![p] = @ + 1]
    /\ errors0' = [errors0 EXCEPT ![p] = errors[p]]
    /\ exc' = [exc EXCEPT ![p] = NoExc]
    /\ conversion' = [conversion EXCEPT ![p] = NoConversion]
    /\ pc' = [pc EXCEPT ![p] =
                IF form[p].class = "AcquiringForm" THEN "acquiring" ELSE "saving"]
    /\ UNCHANGED <<committed, uncommitted, form, convertors, errors, result>>
    /\ inTx' = [inTx EXCEPT ![p] = TRUE]
    /\ UNCHANGED <<mode, semaphore, response>>
    /\ saves' = [saves EXCEPT ![p].inside = @ + 1]
    /\ tx' = [tx EXCEPT ![p].entered = @ + 1]

\* mutant: IntegrityError is not caught
HandlerLeaksIntegrityError(e) ==
    CASE e.type = "ValidationError" -> "except_ve"
      [] OTHER                      -> "raised"

\* mutant: a ValidationError is raised on without touching the form
HandlerSkipsCollect(e) ==
    CASE e.type = "IntegrityError"  -> "except_ierr"
      [] e.type = "ValidationError" -> "reraise"
      [] OTHER                      -> "raised"

\* mutant: an exception that is neither kind is swallowed
HandlerSwallowsOther(e) ==
    CASE e.type = "IntegrityError"  -> "except_ierr"
      [] e.type = "ValidationError" -> "except_ve"
      [] OTHER                      -> "returned"

\* which handler of transactional_save an exception leaving the with block meets
Handler(e) ==
    CASE e.type = "IntegrityError"  -> "except_ierr"
      [] e.type = "ValidationError" -> "except_ve"
      [] OTHER                      -> "raised"

\* mutant: the exception is handled inside the with block, before it is left
HandledInBlock(e) == Handler(e)

\* an exception raised inside "with tx_context_manager:" first leaves the block
RaisedInBlock(e) == "exit_exc"

\* mutant: acquire does not block
CanAcquireAlways(sem) == TRUE

\* semaphore.acquire(True) goes through when the counter is positive
CanAcquire(sem) == sem > 0

\* AcquiringForm.save(): semaphore.acquire(True), before the row is written
SaveAcquire(p) ==
    /\ pc[p] = "acquiring"
    /\ CanAcquire(semaphore)
    /\ semaphore' = IF semaphore > 0 THEN semaphore - 1 ELSE 0
    /\ pc' = [pc EXCEPT ![p] = "saving"]
    /\ UNCHANGED <<committed, uncommitted, form, convertors, errors, errors0, exc, result,
                   calls, conversion, inTx, mode, response>>
    /\ UNCHANGED <<saves, tx>>

\* form.save() writes its row: the write waits while another open transaction
\* holds an uncommitted row with the same value or is changing the committed row
\* that has it, raises IntegrityError when a committed row of another record has
\* it, and otherwise adds the row to the transaction
SaveWrite(p) ==
    /\ pc[p] = "saving"
    /\ uncommitted[p] = {}
    /\ \A q \in Threads \ {p} :
           /\ form[p].data \notin UniqueValues(uncommitted[q])
           /\ uncommitted[q] # {} =>
                  form[p].data \notin UniqueValues({r \in committed : r.by = q})
    /\ IF form[p].data \in UniqueValues(OthersRows(committed, p))
       THEN /\ exc' = [exc EXCEPT ![p] =
                        RaisedIntegrityError(IntegrityError("duplicate key", p, calls[p]))]
            /\ pc' = [pc EXCEPT ![p] = RaisedInBlock(exc'[p])]
            /\ UNCHANGED uncommitted
       ELSE /\ uncommitted' = [uncommitted EXCEPT ![p] = {Row(form[p].data, p)}]
            /\ UNCHANGED <<exc, pc>>
    /\ UNCHANGED <<committed, form, convertors, errors, errors0, result, calls, conversion>>
    /\ UNCHANGED <<inTx, mode, semaphore, response>>
    /\ UNCHANGED <<saves, tx>>

\* ReleasingForm.save(): semaphore.release() once the row is written
Release(c, sem) == IF c = "ReleasingForm" THEN sem + 1 ELSE sem

\* form.save() returns the saved instance
SaveReturn(p) ==
    /\ pc[p] = "saving"
    /\ form[p].raises = NoExc
    /\ uncommitted[p] # {}
    /\ result' = [result EXCEPT ![p] = form[p].data]
    /\ semaphore' = Release(form[p].class, semaphore)
    /\ pc' = [pc EXCEPT ![p] = "exit_ok"]
    /\ UNCHANGED <<committed, uncommitted, form, convertors, errors, errors0, exc, calls,
                   conversion, inTx, mode, response>>
    /\ UNCHANGED <<saves, tx>>

\* form.save() raises a ValidationError or some other exception of its own
SaveRaise(p) ==
    /\ pc[p] = "saving"
    /\ form[p].raises # NoExc
    /\ exc' = [exc EXCEPT ![p] = form[p].raises]
    /\ pc' = [pc EXCEPT ![p] = RaisedInBlock(form[p].raises)]
    /\ UNCHANGED <<committed, uncommitted, form, convertors, errors, errors0, result, calls,
                   conversion>>
    /\ UNCHANGED <<inTx, mode, semaphore, response>>
    /\ UNCHANGED <<saves, tx>>

\* mutant: the context manager's exit leaves the transaction open
ExitLeavesOpen(open) == open

\* tx_context_manager.__exit__: the transaction is closed
Exit(open) == FALSE

\* the with block ends normally: commit; the commit of a row that breaks a
\* deferred constraint raises IntegrityError and rolls back
ExitCommit(p) ==
    /\ pc[p] = "exit_ok"
    /\ IF form[p].class = "DeferredForm"
       THEN /\ committed' = Rollback(committed, uncommitted[p])
            /\ exc' = [exc EXCEPT ![p] =
                        RaisedIntegrityError(IntegrityError("deferred constraint", p, calls[p]))]
            /\ result' = [result EXCEPT ![p] = 0]
            /\ pc' = [pc EXCEPT ![p] = "except_ierr"]
       ELSE /\ committed' = Commit(committed, uncommitted[p])
            /\ pc' = [pc EXCEPT ![p] = "returned"]
            /\ UNCHANGED <<exc, result>>
    /\ uncommitted' = [uncommitted EXCEPT ![p] = {}]
    /\ UNCHANGED <<form, convertors, errors, errors0, calls, conversion>>
    /\ inTx' = [inTx EXCEPT ![p] = Exit(@)]
    /\ UNCHANGED <<mode, semaphore, response>>
    /\ tx' = IF form[p].class = "DeferredForm"
             THEN [tx EXCEPT ![p].rolledback = @ + 1]
             ELSE [tx EXCEPT ![p].committed = @ + 1]
    /\ UNCHANGED saves

\* the with block ends on an exception: roll back, then the exception goes on
ExitRollback(p) ==
    /\ pc[p] = "exit_exc"
    /\ committed' = Rollback(committed, uncommitted[p])
    /\ uncommitted' = [uncommitted EXCEPT ![p] = {}]
    /\ pc' = [pc EXCEPT ![p] = Handler(exc[p])]
    /\ UNCHANGED <<form, convertors, errors, errors0, exc, result, calls, conversion>>
    /\ inTx' = [inTx EXCEPT ![p] = Exit(@)]
    /\ UNCHANGED <<mode, semaphore, response>>
    /\ tx' = [tx EXCEPT ![p].rolledback = @ + 1]
    /\ UNCHANGED saves

\* except IntegrityError as e: raise validationerror_from_integrityerror(e, convertors)
Convert(p) ==
    /\ pc[p] = "except_ierr"
    /\ LET r == validationerror_from_integrityerror(exc[p].ierror, convertors[p])
           raised == IF r.outcome = "none" THEN OtherError ELSE r.v
       IN  /\ conversion' = [conversion EXCEPT ![p] =
                [ierror |-> exc[p].ierror, arg |-> convertors[p], outcome |-> r.outcome,
                 v |-> r.v, invoked |-> r.invoked, convertors |-> r.convertors]]
           /\ convertors' = [convertors EXCEPT ![p] =
                IF @.isNone THEN @ ELSE List(r.convertors)]
           /\ exc' = [exc EXCEPT ![p] = raised]
           /\ pc' = [pc EXCEPT ![p] = Handler(raised)]
    /\ UNCHANGED <<committed, uncommitted, form, errors, errors0, result, calls>>
    /\ UNCHANGED <<inTx, mode, semaphore, response>>
    /\ UNCHANGED <<saves, tx>>

\* except forms.ValidationError as e: the messages go onto the form
Collect(p) ==
    /\ pc[p] = "except_ve"
    /\ errors' = [errors EXCEPT ![p] = AddErrorToForm(@, exc[p])]
    /\ pc' = [pc EXCEPT ![p] = "reraise"]
    /\ UNCHANGED <<committed, uncommitted, form, convertors, errors0, exc, result, calls,
                   conversion>>
    /\ UNCHANGED <<inTx, mode, semaphore, response>>
    /\ UNCHANGED <<saves, tx>>

\* raise: the ValidationError goes on to the caller
Reraise(p) ==
    /\ pc[p] = "reraise"
    /\ pc' = [pc EXCEPT ![p] = "raised"]
    /\ UNCHANGED <<committed, uncommitted, form, convertors, errors, errors0, exc, result,
                   calls, conversion>>
    /\ UNCHANGED <<inTx, mode, semaphore, response>>
    /\ UNCHANGED <<saves, tx>>

Next ==
    \E p \in Threads :
        \/ Validate(p)
        \/ Enter(p)
        \/ SaveWrite(p)
        \/ SaveReturn(p)
        \/ SaveRaise(p)
        \/ ExitCommit(p)
        \/ ExitRollback(p)
        \/ Convert(p)
        \/ Collect(p)
        \/ Reraise(p)

Spec == Init /\ [][Next]_vars

\* the steps of one thread calling tsave()
Thread(p) ==
    \/ Validate(p)
    \/ Enter(p)
    \/ SaveWrite(p)
    \/ SaveReturn(p)
    \/ SaveRaise(p)
    \/ ExitCommit(p)
    \/ ExitRollback(p)
    \/ Convert(p)
    \/ Collect(p)
    \/ Reraise(p)

\* as Init, the first thread passing None or a list of at most one convertor
InitFair ==
    /\ mode = "short"
    /\ committed = {}
    /\ uncommitted = [p \in Threads |-> {}]
    /\ pc = [p \in Threads |-> "new"]
    /\ form = [p \in Threads |-> NoForm]
    /\ convertors = [p \in Threads |-> None]
    /\ errors = [p \in Threads |-> EmptyDict]
    /\ errors0 = [p \in Threads |-> EmptyDict]
    /\ exc = [p \in Threads |-> NoExc]
    /\ result = [p \in Threads |-> 0]
    /\ calls = [p \in Threads |-> 0]
    /\ conversion = [p \in Threads |-> NoConversion]
    /\ inTx = [p \in Threads |-> FALSE]
    /\ semaphore = 0
    /\ response = [p \in Threads |-> 0]
    /\ saves = [p \in Threads |-> NoSaves]
    /\ tx = [p \in Threads |-> NoTx]

NextFair == \E p \in Threads : Thread(p)

\* each thread is scheduled again and again: a step it can take is taken
SpecFair ==
    /\ InitFair
    /\ [][NextFair]_vars
    /\ \A p \in Threads : WF_vars(Thread(p))

(* ------------------------------- views --------------------------------- *)

\* mutant: form_valid has no except clause
CatchesNothing(e) == FALSE

\* except django.forms.ValidationError
Catches(e) == e.type = "ValidationError"

\* form_valid, after the transactional save returned: super().form_valid(form),
\* the base handler, saves the form once more (its own committed record, outside
\* any transaction) and answers with the redirect to the success URL
FormValidSuper(p) ==
    /\ mode \in {"create", "update"}
    /\ pc[p] = "returned"
    /\ committed' = Commit(committed, {Row(form[p].data, p)})
    /\ response' = [response EXCEPT ![p] = 302]
    /\ pc' = [pc EXCEPT ![p] = "responded"]
    /\ UNCHANGED <<uncommitted, form, convertors, errors, errors0, exc, result, calls,
                   conversion, inTx, mode, semaphore>>
    /\ saves' = [saves EXCEPT ![p].outside = @ + 1]
    /\ UNCHANGED tx

\* form_valid, after the transactional save raised: a ValidationError gives
\* form_invalid(form), the form shown again; anything else leaves the handler
\* and fails the request
FormValidExcept(p) ==
    /\ mode \in {"create", "update"}
    /\ pc[p] = "raised"
    /\ response' = [response EXCEPT ![p] = IF Catches(exc[p]) THEN 200 ELSE 500]
    /\ pc' = [pc EXCEPT ![p] = "responded"]
    /\ UNCHANGED <<committed, uncommitted, form, convertors, errors, errors0, exc, result,
                   calls, conversion, inTx, mode, semaphore>>
    /\ UNCHANGED <<saves, tx>>

\* two create requests on the empty table, or two update requests on the two
\* existing records
InitViews ==
    /\ \/ mode = "create" /\ committed = {}
       \/ mode = "update" /\ committed = ExistingRows
    /\ uncommitted = [p \in Threads |-> {}]
    /\ pc = [p \in Threads |-> "new"]
    /\ form = [p \in Threads |-> NoForm]
    /\ convertors = [p \in Threads |-> None]
    /\ errors = [p \in Threads |-> EmptyDict]
    /\ errors0 = [p \in Threads |-> EmptyDict]
    /\ exc = [p \in Threads |-> NoExc]
    /\ result = [p \in Threads |-> 0]
    /\ calls = [p \in Threads |-> 0]
    /\ conversion = [p \in Threads |-> NoConversion]
    /\ inTx = [p \in Threads |-> FALSE]
    /\ semaphore = 0
    /\ response = [p \in Threads |-> 0]
    /\ saves = [p \in Threads |-> NoSaves]
    /\ tx = [p \in Threads |-> NoTx]

NextViews ==
    \E p \in Threads :
        \/ Validate(p)
        \/ Enter(p)
        \/ SaveWrite(p)
        \/ SaveReturn(p)
        \/ SaveRaise(p)
        \/ ExitCommit(p)
        \/ ExitRollback(p)
        \/ Convert(p)
        \/ Collect(p)
        \/ Reraise(p)
        \/ FormValidSuper(p)
        \/ FormValidExcept(p)

SpecViews == InitViews /\ [][NextViews]_vars

(* ----------------------- the semaphore-gated race ----------------------- *)

\* semaphore = threading.Semaphore(); semaphore.acquire(): the counter is 0 when
\* the two threads start
InitGated ==
    /\ mode = "gated"
    /\ committed = {}
    /\ uncommitted = [p \in Threads |-> {}]
    /\ pc = [p \in Threads |-> "new"]
    /\ form = [p \in Threads |-> NoForm]
    /\ convertors = [p \in Threads |-> None]
    /\ errors = [p \in Threads |-> EmptyDict]
    /\ errors0 = [p \in Threads |-> EmptyDict]
    /\ exc = [p \in Threads |-> NoExc]
    /\ result = [p \in Threads |-> 0]
    /\ calls = [p \in Threads |-> 0]
    /\ conversion = [p \in Threads |-> NoConversion]
    /\ inTx = [p \in Threads |-> FALSE]
    /\ semaphore = 0
    /\ response = [p \in Threads |-> 0]
    /\ saves = [p \in Threads |-> NoSaves]
    /\ tx = [p \in Threads |-> NoTx]

\* the steps of one thread of the gated race
ThreadGated(p) ==
    \/ Validate(p)
    \/ Enter(p)
    \/ SaveAcquire(p)
    \/ SaveWrite(p)
    \/ SaveReturn(p)
    \/ ExitCommit(p)
    \/ ExitRollback(p)
    \/ Convert(p)
    \/ Collect(p)
    \/ Reraise(p)

NextGated == \E p \in Threads : ThreadGated(p)

\* each thread is scheduled again and again: a step it can take is taken
SpecGated ==
    /\ InitGated
    /\ [][NextGated]_vars
    /\ \A p \in Threads : WF_vars(ThreadGated(p))

(* ------------------------------ claims --------------------------------- *)

\* the messages a form holds under a field (none when it has no such bucket)
Bucket(errs, f) == IF f \in DOMAIN errs THEN errs[f] ELSE <<>>

\* the texts of the entries of an error list, one message each
Texts(items) == [i \in DOMAIN items |-> items[i].msgs[1].text]

\* how many messages a ValidationError carries under a field
Carried(e, f) ==
    IF e.hasDict THEN (IF f \in DOMAIN e.error_dict THEN Len(e.error_dict[f]) ELSE 0)
    ELSE (IF f = NON_FIELD_ERRORS THEN Len(e.error_list) ELSE 0)

Finished(p) == pc[p] \in {"returned", "raised"}

Range(s) == {s[i] : i \in DOMAIN s}

\* a conversion has run in the current call of p
Converted(p) == conversion[p].ierror # NoCause

\* both threads post the same value through plain model forms, with convertors
\* that return
SameValueRace ==
    /\ \A p \in Threads :
           /\ form[p].class = "ModelForm"
           /\ Range(convertors[p].items) \cap {"raises", "raises_ve"} = {}
    /\ form["first"].data = form["second"].data

\* C1: of two transactional saves that write the same value to the unique column,
\* both validated, exactly one returns (one row more than the empty table had)
\* and the other ends by raising a ValidationError made from the duplicate-key
\* IntegrityError; never both return, never both raise.
C1_ExactlyOneSaveWins ==
    SameValueRace =>
        /\ ~(pc["first"] = "returned" /\ pc["second"] = "returned")
        /\ Cardinality(committed) <= 1
        /\ (\A p \in Threads : Finished(p)) =>
               \E w \in Threads :
                   /\ pc[w] = "returned"
                   /\ committed = {Row(form[w].data, w)}
                   /\ \A l \in Threads \ {w} :
                          /\ pc[l] = "raised"
                          /\ exc[l].type = "ValidationError"
                          /\ exc[l].cause.text = "duplicate key"

C1_Witness ==
    /\ SameValueRace
    /\ pc["first"] = "returned"
    /\ pc["second"] = "raised"
    /\ exc["second"].type = "ValidationError"
    /\ Cardinality(committed) = 1

\* C2: no call of transactional_save ends with an IntegrityError: once an
\* IntegrityError was raised by save() or by the commit, and no convertor raised,
\* the call ends by raising a ValidationError, whatever the convertors argument.
C2_IntegrityErrorNeverLeaves ==
    \A p \in Threads :
        /\ Finished(p) => exc[p].type # "IntegrityError"
        /\ exc[p].type = "IntegrityError" => pc[p] \in {"exit_exc", "except_ierr"}
        /\ (Finished(p) /\ Converted(p) /\ conversion[p].outcome # "raise") =>
               pc[p] = "raised" /\ exc[p].type = "ValidationError"

C2_Witness ==
    /\ pc["first"] = "raised"
    /\ exc["first"].type = "ValidationError"
    /\ conversion["first"].ierror.text = "deferred constraint"
    /\ conversion["first"].arg = List(<<"decline", "decline">>)

\* the rows of the table written by thread p
RowsBy(p) == {r \in committed : r.by = p}

\* C3: the writes of a transactional save are invisible until the commit, all
\* visible once it has returned, and gone after it raised; the step that leaves
\* the transaction on a failure leaves the committed rows exactly as they were.
C3_AtomicSave ==
    /\ [](\A p \in Threads :
            /\ pc[p] \in {"saving", "exit_ok", "exit_exc"} => RowsBy(p) = {}
            /\ pc[p] = "returned" =>
                   RowsBy(p) = {Row(form[p].data, p)} /\ uncommitted[p] = {}
            /\ pc[p] \in {"except_ierr", "except_ve", "reraise", "raised"} =>
                   RowsBy(p) = {} /\ uncommitted[p] = {})
    /\ [][\A p \in Threads :
            (pc[p] \in {"exit_ok", "exit_exc"} /\ pc'[p] \notin {pc[p], "returned"}) =>
                committed' = committed]_vars

C3_Witness ==
    /\ pc["first"] = "raised"
    /\ form["first"].class = "DeferredForm"
    /\ form["second"].class = "ModelForm"
    /\ pc["second"] = "returned"
    /\ committed = {Row(form["second"].data, "second")}

\* C4 as stated: once save() of a validated form has returned normally, the call
\* commits, returns the result of save() and leaves the form without errors.
C4_Original ==
    [][\A p \in Threads :
        (pc[p] = "exit_ok" /\ errors0[p] = EmptyDict /\ pc'[p] # pc[p]) =>
            /\ pc'[p] = "returned"
            /\ result'[p] = form[p].data
            /\ Row(form[p].data, p) \in committed'
            /\ errors'[p] = EmptyDict]_vars

\* C4 amended: once save() of a validated form has returned normally, either the
\* commit raises an IntegrityError (nothing is committed, the call goes on to the
\* conversion), or the transaction commits, the result of save() is returned and
\* the form has no errors.
C4_CommitOrIntegrityError ==
    [][\A p \in Threads :
        (pc[p] = "exit_ok" /\ errors0[p] = EmptyDict /\ pc'[p] # pc[p]) =>
            \/ /\ pc'[p] = "returned"
               /\ result'[p] = form[p].data
               /\ Row(form[p].data, p) \in committed'
               /\ errors'[p] = EmptyDict
            \/ /\ pc'[p] = "except_ierr"
               /\ exc'[p].type = "IntegrityError"
               /\ committed' = committed
               /\ errors'[p] = EmptyDict]_vars

C4_Witness ==
    /\ pc["first"] = "returned"
    /\ form["first"].class = "ModelForm"
    /\ result["first"] = form["first"].data
    /\ errors["first"] = EmptyDict
    /\ Row(form["first"].data, "first") \in committed

\* C5: after a call on a form without errors ended with a ValidationError built
\* from a mapping, the form holds under each field of the mapping exactly its
\* messages, in order, and has no bucket for any other field.
C5_DictMessagesUnderTheirFields ==
    \A p \in Threads :
        (pc[p] = "raised" /\ exc[p].type = "ValidationError" /\ exc[p].hasDict
            /\ errors0[p] = EmptyDict) =>
            /\ DOMAIN errors[p] = DOMAIN exc[p].error_dict
            /\ \A f \in DOMAIN exc[p].error_dict :
                   errors[p][f] = Texts(exc[p].error_dict[f])

C5_Witness ==
    /\ pc["first"] = "raised"
    /\ exc["first"].hasDict
    /\ exc["first"].cause = NoCause
    /\ errors0["first"] = EmptyDict
    /\ errors["first"] = [f \in {"unique"} |-> <<"some message", "some other message">>]

\* C6: after a call on a form without errors ended with a ValidationError that
\* has no field name (one message, or a list of n), the form holds exactly those
\* n messages, in order, in the non-field bucket and has no other bucket.
C6_NoFieldGoesToNonField ==
    \A p \in Threads :
        (pc[p] = "raised" /\ exc[p].type = "ValidationError" /\ ~exc[p].hasDict
            /\ errors0[p] = EmptyDict) =>
            /\ DOMAIN errors[p] = {NON_FIELD_ERRORS}
            /\ Len(errors[p][NON_FIELD_ERRORS]) = Len(exc[p].error_list)
            /\ errors[p][NON_FIELD_ERRORS] = Texts(exc[p].error_list)

C6_Witness ==
    /\ pc["first"] = "raised"
    /\ ~exc["first"].hasDict
    /\ exc["first"].cause = NoCause
    /\ errors0["first"] = EmptyDict
    /\ errors["first"] =
           [f \in {NON_FIELD_ERRORS} |-> <<"some message", "some other message">>]

\* C7: a ValidationError caught by transactional_save (raised by save(), or made
\* from an IntegrityError) is the exception the call ends with; when the caller
\* sees it the form already holds its messages, and such a call never returns.
C7_ValidationErrorReraisedAfterCollect ==
    /\ [](\A p \in Threads :
            /\ (pc[p] = "raised" /\ exc[p].type = "ValidationError") =>
                   \A f \in FieldNames :
                       Len(Bucket(errors[p], f)) =
                           Len(Bucket(errors0[p], f)) + Carried(exc[p], f)
            /\ (pc[p] \in {"except_ve", "reraise", "raised"}
                    /\ conversion[p].outcome = "value") => exc[p] = conversion[p].v
            /\ pc[p] = "returned" => exc[p] = NoExc)
    /\ [][\A p \in Threads :
            (pc[p] \in {"except_ve", "reraise"} /\ pc'[p] # pc[p]) =>
                /\ exc'[p] = exc[p]
                /\ pc'[p] \in {"reraise", "raised"}]_vars

C7_Witness ==
    /\ pc["first"] = "raised"
    /\ exc["first"].type = "ValidationError"
    /\ conversion["first"].outcome = "value"
    /\ exc["first"] = conversion["first"].v
    /\ Len(Bucket(errors["first"], NON_FIELD_ERRORS)) = 1
    /\ errors0["first"] = EmptyDict

\* C8: the conversion goes through the supplied convertors in list order with the
\* fallback last, stops at the first one that returns non-null and returns what
\* that one gave: every convertor before it declined, none after it was invoked.
C8_FirstNonNullConvertorWins ==
    \A p \in Threads :
        Converted(p) =>
            LET L == conversion[p].convertors
                k == Len(conversion[p].invoked)
            IN  /\ L = conversion[p].arg.items \o <<"fallback">>
                /\ conversion[p].invoked = [i \in 1..k |-> i]
                /\ k >= 1 /\ k <= Len(L)
                /\ \A j \in 1..(k - 1) : L[j] = "decline"
                /\ conversion[p].outcome = "value" =>
                       /\ L[k] \in {"field", "nonfield", "fallback"}
                       /\ conversion[p].v =
                              [ConvertorCall(L[k], conversion[p].ierror).v
                                  EXCEPT !.cause = conversion[p].ierror]

C8_Witness ==
    /\ pc["first"] = "raised"
    /\ conversion["first"].arg = List(<<"decline", "field">>)
    /\ conversion["first"].invoked = <<1, 2>>
    /\ conversion["first"].v.hasDict
    /\ errors["first"] = [f \in {"unique"} |-> <<"taken">>]

\* every supplied convertor of the argument declines (None and [] included)
AllDecline(arg) == \A i \in DOMAIN arg.items : arg.items[i] = "decline"

\* C9: the conversion always ends with a ValidationError unless a supplied
\* convertor raised; when every supplied convertor declines it is the fallback's:
\* no field name, exactly one message, the text of the IntegrityError.
C9_ConversionIsTotal ==
    \A p \in Threads :
        Converted(p) =>
            /\ conversion[p].outcome \in {"value", "raise"}
            /\ conversion[p].outcome = "raise" =>
                   conversion[p].convertors[Len(conversion[p].invoked)]
                       \in {"raises", "raises_ve"}
            /\ conversion[p].outcome = "value" =>
                   conversion[p].v.type = "ValidationError"
            /\ AllDecline(conversion[p].arg) =>
                   /\ conversion[p].outcome = "value"
                   /\ ~conversion[p].v.hasDict
                   /\ Len(conversion[p].v.error_list) = 1
                   /\ Texts(conversion[p].v.error_list) = <<conversion[p].ierror.text>>
                   /\ Len(conversion[p].v.error_list[1].msgs) = 1

C9_Witness ==
    /\ Converted("first")
    /\ conversion["first"].arg = List(<<"decline">>)
    /\ conversion["first"].ierror.text = "duplicate key"
    /\ Texts(conversion["first"].v.error_list) = <<"duplicate key">>

\* C10: the ValidationError the conversion returns has as its cause the
\* IntegrityError that was passed in, the one raised in this call of this
\* thread, whichever convertor produced it.
C10_CauseIsTheIntegrityError ==
    \A p \in Threads :
        (Converted(p) /\ conversion[p].outcome = "value") =>
            /\ conversion[p].v.cause = conversion[p].ierror
            /\ conversion[p].ierror.thread = p
            /\ conversion[p].ierror.call = calls[p]
            /\ conversion[p].ierror.text \in {"duplicate key", "deferred constraint"}

C10_Witness ==
    /\ Converted("first")
    /\ conversion["first"].arg = List(<<"nonfield">>)
    /\ conversion["first"].v.cause = IntegrityError("duplicate key", "first", 2)

\* C11: running the conversion a second time with the same IntegrityError and
\* the same list object (as the first run left it) ends the same way, with a
\* ValidationError of equal content and the same cause.
C11_ConversionRepeatable ==
    \A p \in Threads :
        (Converted(p) /\ ~conversion[p].arg.isNone) =>
            LET again == validationerror_from_integrityerror(
                             conversion[p].ierror, List(conversion[p].convertors))
            IN  /\ again.outcome = conversion[p].outcome
                /\ again.v = conversion[p].v
                /\ again.v.cause = conversion[p].v.cause

\* the second call of a thread runs the conversion on the list object its first
\* call ran it on
C11_Witness ==
    /\ Converted("first")
    /\ calls["first"] = 2
    /\ conversion["first"].arg = List(<<"decline", "nonfield", "fallback">>)
    /\ conversion["first"].outcome = "value"
    /\ Texts(conversion["first"].v.error_list) = <<"custom">>

\* the texts a ValidationError carries under a field, in order
CarriedTexts(e, f) ==
    IF e.hasDict THEN (IF f \in DOMAIN e.error_dict THEN Texts(e.error_dict[f]) ELSE <<>>)
    ELSE (IF f = NON_FIELD_ERRORS THEN Texts(e.error_list) ELSE <<>>)

\* both threads post the same value through plain model forms and call tsave()
\* once, with no convertors
PlainRace ==
    /\ SameValueRace
    /\ \A p \in Threads : convertors[p] = None /\ calls[p] = 1 /\ Finished(p)

\* C15: in the race of two conflicting saves with no custom convertor, the losing
\* form ends with exactly one non-field error and no field error, its text the
\* first message of the ValidationError raised to the loser's caller, and the
\* winning form ends with no error.
C15_LoserHasOneNonFieldError ==
    PlainRace =>
        \A p \in Threads :
            /\ pc[p] = "raised" =>
                   /\ DOMAIN errors[p] = {NON_FIELD_ERRORS}
                   /\ Len(errors[p][NON_FIELD_ERRORS]) = 1
                   /\ errors[p][NON_FIELD_ERRORS][1] = exc[p].error_list[1].msgs[1].text
                   /\ errors[p][NON_FIELD_ERRORS][1] = "duplicate key"
            /\ pc[p] = "returned" => errors[p] = EmptyDict

C15_Witness ==
    /\ PlainRace
    /\ pc["first"] = "raised"
    /\ pc["second"] = "returned"
    /\ errors["first"] = [f \in {NON_FIELD_ERRORS} |-> <<"duplicate key">>]
    /\ errors["second"] = EmptyDict

\* C17: the conversion runs and the form's errors change only when the
\* transaction opened by transactional_save is closed and holds no writes; while
\* the call stands in a handler the transaction is closed.
C17_ConvertAfterTransaction ==
    /\ [](\A p \in Threads :
            pc[p] \in {"except_ierr", "except_ve", "reraise"} =>
                ~inTx[p] /\ uncommitted[p] = {})
    /\ [][\A p \in Threads :
            (conversion'[p] \notin {conversion[p], NoConversion} \/ errors'[p] # errors[p]) =>
                /\ ~inTx[p] /\ ~inTx'[p]
                /\ uncommitted[p] = {}]_vars

C17_Witness ==
    /\ pc["first"] = "reraise"
    /\ Converted("first")
    /\ conversion["first"].ierror.text = "duplicate key"
    /\ ~inTx["first"]
    /\ uncommitted["first"] = {}
    /\ pc["second"] = "returned"

\* k copies of a sequence
RECURSIVE Repeat(_, _)
Repeat(seq, k) == IF k = 0 THEN <<>> ELSE Repeat(seq, k - 1) \o seq

\* C18: when a call has ended with a ValidationError, every bucket holds what it
\* held before the call followed by the error's messages for that field, in the
\* error's order; buckets of other fields are as before; the k-th failed call with
\* the same messages turns k - 1 copies of them into k copies.
C18_ErrorsAreAppended ==
    \A p \in Threads :
        (pc[p] = "raised" /\ exc[p].type = "ValidationError") =>
            /\ \A f \in FieldNames :
                   Bucket(errors[p], f) = Bucket(errors0[p], f) \o CarriedTexts(exc[p], f)
            /\ \A f \in DOMAIN errors0[p] : f \in DOMAIN errors[p]
            /\ (\A f \in FieldNames :
                    Bucket(errors0[p], f) = Repeat(CarriedTexts(exc[p], f), calls[p] - 1)) =>
                   \A f \in FieldNames :
                       Bucket(errors[p], f) = Repeat(CarriedTexts(exc[p], f), calls[p])

C18_Witness ==
    /\ pc["first"] = "raised"
    /\ calls["first"] = 2
    /\ form["first"].class = "RaisesValidationError"
    /\ errors["first"] = [f \in {"unique"} |->
          <<"some message", "some other message", "some message", "some other message">>]

\* C19 as stated: the list the caller supplied holds the same elements after the
\* conversion as before it, and DEFAULT_CONVERTORS holds exactly the fallback.
C19_CallersListUntouched ==
    /\ DEFAULT_CONVERTORS = <<"fallback">>
    /\ \A p \in Threads :
           (Converted(p) /\ ~conversion[p].arg.isNone) => convertors[p] = conversion[p].arg

\* C20 as stated: when save() raised an exception of neither kind, or a convertor
\* raised, the call ends with that exception and the form's errors as before.
C20_Original ==
    \A p \in Threads :
        (Finished(p) /\ (exc[p].type = "Other" \/ conversion[p].outcome = "raise")) =>
            /\ pc[p] = "raised"
            /\ errors[p] = errors0[p]

\* C20 amended: when save() raised an exception that is neither an IntegrityError
\* nor a ValidationError, or a convertor raised such an exception, the call ends
\* by raising that exception, the transaction is rolled back and the form's
\* errors are as before the call; a ValidationError raised by a convertor is
\* re-raised too, after its messages were appended to the form.
C20_OtherExceptionsPropagate ==
    \A p \in Threads :
        /\ (Finished(p) /\ exc[p].type = "Other") =>
               /\ pc[p] = "raised"
               /\ errors[p] = errors0[p]
               /\ ~inTx[p] /\ uncommitted[p] = {} /\ RowsBy(p) = {}
               /\ result[p] = 0
               /\ Converted(p) => conversion[p].outcome = "raise" /\ exc[p] = conversion[p].v
               /\ ~Converted(p) => exc[p] = form[p].raises
        /\ (Finished(p) /\ conversion[p].outcome = "raise") =>
               /\ pc[p] = "raised"
               /\ exc[p] = conversion[p].v
               /\ RowsBy(p) = {}
               /\ \A f \in FieldNames :
                      Bucket(errors[p], f) = Bucket(errors0[p], f) \o CarriedTexts(exc[p], f)

C20_Witness ==
    /\ pc["first"] = "raised"
    /\ exc["first"].type = "Other"
    /\ conversion["first"].outcome = "raise"
    /\ conversion["first"].arg = List(<<"decline", "raises">>)
    /\ errors["first"] = EmptyDict

\* the request of p has been answered
Responded(p) == pc[p] = "responded"

\* C12: a request never ends with an IntegrityError; when the transactional save
\* raised a ValidationError the answer is the redisplayed form (200) holding that
\* error's messages; the answer is the redirect (302) exactly when the save
\* returned, its row committed; a request fails only on another kind of exception.
C12_FormValidCatchesValidationError ==
    \A p \in Threads :
        Responded(p) =>
            /\ exc[p].type # "IntegrityError"
            /\ exc[p].type = "ValidationError" =>
                   /\ response[p] = 200
                   /\ errors[p] # EmptyDict
                   /\ errors[p] = AddErrorToForm(EmptyDict, exc[p])
            /\ response[p] = 302 <=>
                   /\ exc[p] = NoExc
                   /\ result[p] = form[p].data
                   /\ RowsBy(p) = {Row(form[p].data, p)}
            /\ response[p] = 302 => errors[p] = EmptyDict
            /\ response[p] \notin {200, 302} => exc[p].type = "Other"

C12_Witness ==
    /\ mode = "create"
    /\ Responded("first") /\ Responded("second")
    /\ form["first"].class = "ModelForm"
    /\ form["first"].data = form["second"].data
    /\ response["first"] = 200
    /\ exc["first"].type = "ValidationError"
    /\ exc["first"].cause # NoCause
    /\ errors["first"] # EmptyDict
    /\ response["second"] = 302

\* C13: in a view whose save hit an IntegrityError the override is invoked first;
\* when it returns an error the fallback is not invoked and the form holds exactly
\* the override's messages; when it returns None the fallback is invoked next and
\* the form holds one non-field error, the text of the IntegrityError.
C13_OverrideBeforeFallback ==
    \A p \in Threads :
        (Responded(p) /\ Converted(p)) =>
            LET override == conversion[p].arg.items[1]
            IN  /\ Len(conversion[p].arg.items) = 1
                /\ conversion[p].convertors = <<override, "fallback">>
                /\ response[p] = 200
                /\ override = "nonfield" =>
                       /\ conversion[p].invoked = <<1>>
                       /\ errors[p] = [f \in {NON_FIELD_ERRORS} |-> <<"custom">>]
                /\ override = "field" =>
                       /\ conversion[p].invoked = <<1>>
                       /\ errors[p] = [f \in {"unique"} |-> <<"taken">>]
                /\ override = "decline" =>
                       /\ conversion[p].invoked = <<1, 2>>
                       /\ errors[p] =
                              [f \in {NON_FIELD_ERRORS} |-> <<conversion[p].ierror.text>>]
                /\ override # "decline" =>
                       \A f \in DOMAIN errors[p] : \A i \in DOMAIN errors[p][f] :
                           errors[p][f][i] # conversion[p].ierror.text

C13_Witness ==
    /\ Responded("first") /\ Responded("second")
    /\ Converted("first")
    /\ conversion["first"].arg = List(<<"nonfield">>)
    /\ conversion["first"].ierror.text = "duplicate key"
    /\ conversion["first"].invoked = <<1>>
    /\ errors["first"] = [f \in {NON_FIELD_ERRORS} |-> <<"custom">>]
    /\ response["first"] = 200
    /\ response["second"] = 302

\* the record p's request updates, as it was before the requests
OldRows(p) == {r \in ExistingRows : r.by = p}

\* both update requests, through plain model forms, posted the same new value
\* and have been answered
UpdateRace ==
    /\ mode = "update"
    /\ \A p \in Threads : Responded(p) /\ form[p].class = "ModelForm"
    /\ form["first"].data = form["second"].data
    /\ form["first"].data \notin UniqueValues(ExistingRows)

\* C14: after two update requests that set two different records to the same new
\* value, the table has as many records as before; one request got the redirect
\* and its record holds the new value; the other got the redisplayed form with
\* errors and its record holds its old value.
C14_UpdateRaceKeepsLosersRecord ==
    UpdateRace =>
        /\ Cardinality(committed) = Cardinality(ExistingRows)
        /\ \E w \in Threads : \E l \in Threads \ {w} :
               /\ response[w] = 302
               /\ RowsBy(w) = {Row(form[w].data, w)}
               /\ errors[w] = EmptyDict
               /\ response[l] = 200
               /\ RowsBy(l) = OldRows(l)
               /\ errors[l] # EmptyDict

C14_Witness ==
    /\ UpdateRace
    /\ response["first"] = 200
    /\ response["second"] = 302
    /\ committed = {Row(1, "first"), Row(3, "second")}
    /\ errors["first"] # EmptyDict

\* the acquiring and the releasing form post the same value, and the acquiring
\* side's convertors return
GatedRace ==
    /\ mode = "gated"
    /\ form["first"].class = "AcquiringForm"
    /\ form["second"].class = "ReleasingForm"
    /\ form["first"].data = form["second"].data
    /\ Range(convertors["first"].items) \cap {"raises", "raises_ve"} = {}

\* C16: in the semaphore-gated race the acquiring save writes only after the
\* releasing save has written; the releasing save never fails; when both post the
\* same value the acquiring save ends with a ValidationError and writes no row;
\* and both threads come to an end in every interleaving.
C16_ReleasingSaveWins ==
    /\ [](pc["first"] = "saving" \/ uncommitted["first"] # {} =>
              /\ pc["second"] \in {"exit_ok", "returned"}
              /\ result["second"] = form["second"].data)
    /\ [](Finished("second") =>
              /\ pc["second"] = "returned"
              /\ RowsBy("second") = {Row(form["second"].data, "second")})
    /\ []((GatedRace /\ Finished("first")) =>
              /\ pc["first"] = "raised"
              /\ exc["first"].type = "ValidationError"
              /\ exc["first"].cause # NoCause
              /\ pc["second"] = "returned"
              /\ RowsBy("first") = {})
    /\ <>(\A p \in Threads : Finished(p))

C16_Witness ==
    /\ GatedRace
    /\ convertors["first"] = None
    /\ pc["first"] = "raised"
    /\ exc["first"].type = "ValidationError"
    /\ errors["first"] = [f \in {NON_FIELD_ERRORS} |-> <<"duplicate key">>]
    /\ pc["second"] = "returned"
    /\ semaphore = 0
    /\ committed = {Row(form["second"].data, "second")}

\* C21: a request calls form.save() exactly once, inside the transaction, and
\* never outside one.
C21_SaveOnceInsideTransaction ==
    \A p \in Threads :
        /\ saves[p].outside = 0
        /\ Responded(p) => saves[p].inside = 1

\* p stands inside a call of transactional_save
InCall(p) ==
    pc[p] \in {"acquiring", "saving", "exit_ok", "exit_exc", "except_ierr", "except_ve",
               "reraise"}

\* C22: each call enters the transaction context once and leaves it once; the
\* context is open exactly while the call stands in the with block; after the
\* call returned its transaction was committed, after it raised it was rolled
\* back, and nothing is left open or uncommitted; a commit happens only after
\* save() returned normally, an exception in the block always leaves it with a
\* rollback; and every call that started comes to one of the two ends.
C22_TransactionEnteredAndLeftOnce ==
    /\ [](\A p \in Threads :
            /\ tx[p].entered = calls[p]
            /\ tx[p].committed + tx[p].rolledback + (IF inTx[p] THEN 1 ELSE 0) = tx[p].entered
            /\ inTx[p] <=> pc[p] \in {"acquiring", "saving", "exit_ok", "exit_exc"}
            /\ ~InCall(p) => ~inTx[p] /\ uncommitted[p] = {}
            /\ pc[p] = "returned" =>
                   /\ tx[p].committed = 1
                   /\ tx[p].rolledback = calls[p] - 1
                   /\ Row(form[p].data, p) \in committed
            /\ pc[p] = "raised" =>
                   /\ tx[p].committed = 0
                   /\ tx[p].rolledback = calls[p]
                   /\ RowsBy(p) = {})
    /\ [][\A p \in Threads :
            /\ tx'[p].committed # tx[p].committed =>
                   /\ pc[p] = "exit_ok" /\ exc[p] = NoExc /\ result[p] = form[p].data
                   /\ pc'[p] = "returned"
            /\ (pc[p] = "exit_exc" /\ pc'[p] # pc[p]) =>
                   /\ tx'[p].rolledback = tx[p].rolledback + 1
                   /\ ~inTx'[p]
                   /\ committed' = committed]_vars
    /\ \A p \in Threads : InCall(p) ~> Finished(p)

C22_Witness ==
    /\ pc["first"] = "returned"
    /\ result["first"] = form["first"].data
    /\ tx["first"] = [entered |-> 1, committed |-> 1, rolledback |-> 0]
    /\ calls["second"] = 2
    /\ pc["second"] = "raised"
    /\ exc["second"].cause.text = "duplicate key"
    /\ tx["second"] = [entered |-> 2, committed |-> 0, rolledback |-> 2]

====
